---- MODULE Spec2Model ----
(***************************************************************************)
(* Node-pool configuration resolver of AethericForge                       *)
(* (src/workloads/compute.py) and the start of the program run             *)
(* (src/__main__.py, src/workloads/networking.py).                         *)
(*                                                                         *)
(* Python strings are sequences of one-character strings, so that          *)
(* splitting, stripping and formatting are computed, not assumed.  Python  *)
(* values of unknown shape (the configuration is untyped JSON) are tagged  *)
(* records [t |-> tag, v |-> payload].                                     *)
(***************************************************************************)
EXTENDS Integers, Sequences, FiniteSets, TLC

VARIABLES
    pc,        \* position of the run, or of the call under check
    cfg,       \* the "aetheric" configuration namespace
    declared,  \* resources registered with the engine, in order
    raised,    \* the exception that aborted the run ("none" otherwise)
    call,      \* arguments of the function call under check
    result     \* what each call returned or raised

vars == <<pc, cfg, declared, raised, call, result>>

----------------------------------------------------------------------------
(* Bounds of the model *)

MaxPools == 3
MaxStrLen == 3
MaxItems == 2
MaxTokLen == 2
MaxNodes == 5
MaxTaints == 2
MaxEntries == 3
MaxTimes == 2

----------------------------------------------------------------------------
(* Python values *)

Absent == [t |-> "absent"]
PyNone == [t |-> "none"]
PyBool(b) == [t |-> "bool", v |-> b]
PyInt(n) == [t |-> "int", v |-> n]
PyStr(s) == [t |-> "str", v |-> s]
PyList(xs) == [t |-> "list", v |-> xs]
PyDict(items) == [t |-> "dict", v |-> items]

\* the outcome of a call
Return(x) == [raised |-> "none", value |-> x]
Raise(e) == [raised |-> e]
Pending == [raised |-> "pending"]

\* d.get(key): a missing key reads as None
Get(x) == IF x = Absent THEN PyNone ELSE x

\* d.get(key, default)
GetOr(x, default) == IF x = Absent THEN default ELSE x

\* bool(x), `if x`, `not x`
Truthy(x) ==
    CASE x.t = "absent" -> FALSE
      [] x.t = "none" -> FALSE
      [] x.t = "bool" -> x.v
      [] x.t = "int" -> x.v # 0
      [] x.t = "str" -> Len(x.v) > 0
      [] x.t = "list" -> Len(x.v) > 0
      [] x.t = "dict" -> Len(x.v) > 0

Digit(d) == <<"0", "1", "2", "3", "4", "5", "6", "7", "8", "9">>[d + 1]

RECURSIVE Decimal(_)
Decimal(n) == IF n < 10 THEN <<Digit(n)>> ELSE Decimal(n \div 10) \o <<Digit(n % 10)>>

\* str(x) of a scalar
Str(x) ==
    CASE x.t = "str" -> x.v
      [] x.t = "none" -> <<"N", "o", "n", "e">>
      [] x.t = "bool" -> IF x.v THEN <<"T", "r", "u", "e">> ELSE <<"F", "a", "l", "s", "e">>
      [] x.t = "int" -> IF x.v < 0 THEN <<"-">> \o Decimal(-x.v) ELSE Decimal(x.v)

----------------------------------------------------------------------------
(* String operations used by _labels_for *)

Whitespace == {" ", "\t"}

IsSpace(c) == c \in Whitespace

\* the character class [,\s]
IsDelim(c) == c = "," \/ IsSpace(c)

Contains(s, c) == \E i \in 1..Len(s) : s[i] = c

\* s.strip()
Strip(s) ==
    LET keep == {i \in 1..Len(s) : ~IsSpace(s[i])} IN
    IF keep = {} THEN <<>>
    ELSE LET lo == CHOOSE i \in keep : \A j \in keep : i <= j
             hi == CHOOSE i \in keep : \A j \in keep : j <= i
         IN SubSeq(s, lo, hi)

\* split on the last "=" (rsplit)
SplitFirstEq_Last(s) ==
    LET i == CHOOSE i \in 1..Len(s) : s[i] = "=" /\ \A j \in (i + 1)..Len(s) : s[j] # "="
    IN <<SubSeq(s, 1, i - 1), SubSeq(s, i + 1, Len(s))>>

\* s.split("=", 1) when "=" in s
SplitFirstEq(s) ==
    LET i == CHOOSE i \in 1..Len(s) : s[i] = "=" /\ \A j \in 1..(i - 1) : s[j] # "="
    IN <<SubSeq(s, 1, i - 1), SubSeq(s, i + 1, Len(s))>>

\* the first index from i on that is no delimiter (Len(s) + 1 if none)
RECURSIVE SkipDelims(_, _)
SkipDelims(s, i) ==
    IF i <= Len(s) /\ IsDelim(s[i]) THEN SkipDelims(s, i + 1) ELSE i

\* re.split(r"[,\s]+", s): a leading or trailing run of delimiters leaves an
\* empty string at that end
RECURSIVE ReSplitFrom(_, _, _)
ReSplitFrom(s, i, cur) ==
    IF i > Len(s) THEN <<cur>>
    ELSE IF IsDelim(s[i]) THEN <<cur>> \o ReSplitFrom(s, SkipDelims(s, i), <<>>)
    ELSE ReSplitFrom(s, i + 1, Append(cur, s[i]))

ReSplit(s) == ReSplitFrom(s, 1, <<>>)

----------------------------------------------------------------------------
(* _labels_for *)

AETHERIC == <<"a", "e", "t", "h", "e", "r", "i", "c">>
AETHERIC_POOL == AETHERIC \o <<"-", "p", "o", "o", "l">>
TRUE_STR == <<"t", "r", "u", "e">>

\* base = {"aetheric": str(name), "aetheric-pool": str(pool_name)}
BaseLabels(name, pool_name) ==
    [x \in {AETHERIC, AETHERIC_POOL} |->
        IF x = AETHERIC THEN Str(name) ELSE Str(pool_name)]

\* a key already present keeps its value (setdefault)
Put_KeepFirst(base, k, v) ==
    LET key == Str(k)
        val == IF v = PyBool(TRUE) THEN TRUE_STR ELSE Str(v)
    IN [x \in DOMAIN base \cup {key} |-> IF x \in DOMAIN base THEN base[x] ELSE val]

\* put(k, v): base[str(k)] = "true" if v is True else str(v)
Put(base, k, v) ==
    LET key == Str(k)
        val == IF v = PyBool(TRUE) THEN TRUE_STR ELSE Str(v)
    IN [x \in DOMAIN base \cup {key} |-> IF x = key THEN val ELSE base[x]]

\* for k, v in d.items(): put(k, v)
RECURSIVE PutItems(_, _)
PutItems(base, items) ==
    IF items = <<>> THEN base
    ELSE PutItems(Put(base, PyStr(items[1][1]), items[1][2]), Tail(items))

\* a "k=v" string or a bare key
PutToken(base, s) ==
    IF Contains(s, "=")
    THEN LET kv == SplitFirstEq(s) IN Put(base, PyStr(Strip(kv[1])), PyStr(Strip(kv[2])))
    ELSE Put(base, PyStr(Strip(s)), PyBool(TRUE))

\* the list branch: dict items and string items, anything else is skipped
RECURSIVE PutListItems(_, _)
PutListItems(base, xs) ==
    IF xs = <<>> THEN base
    ELSE LET item == xs[1]
             next == IF item.t = "dict" THEN PutItems(base, item.v)
                     ELSE IF item.t = "str" THEN PutToken(base, item.v)
                     ELSE base
         IN PutListItems(next, Tail(xs))

\* the str branch: empty tokens are skipped
RECURSIVE PutTokens(_, _)
PutTokens(base, tokens) ==
    IF tokens = <<>> THEN base
    ELSE PutTokens(IF tokens[1] = <<>> THEN base ELSE PutToken(base, tokens[1]),
                   Tail(tokens))

LabelsFor(name, pool_name, extra) ==
    LET base == BaseLabels(name, pool_name) IN
    IF ~Truthy(extra) THEN Return(base)
    ELSE IF extra.t = "dict" THEN Return(PutItems(base, extra.v))
    ELSE IF extra.t = "list" THEN Return(PutListItems(base, extra.v))
    ELSE IF extra.t = "str" THEN Return(PutTokens(base, ReSplit(Strip(extra.v))))
    ELSE Raise("TypeError")

----------------------------------------------------------------------------
(* split_pools *)

IsSystem(p) == Truthy(Get(p.isSystem))
IsOther(p) == ~Truthy(Get(p.isSystem))

\* other_pools not filtered
SplitPools_OthersUnfiltered(pools) ==
    LET system == SelectSeq(pools, IsSystem) IN
    IF Len(system) # 1 THEN Raise("ValueError")
    ELSE Return([system_pool |-> system[1], other_pools |-> pools])

\* only an empty selection rejected
SplitPools_AtLeastOne(pools) ==
    LET system == SelectSeq(pools, IsSystem) IN
    IF Len(system) < 1 THEN Raise("ValueError")
    ELSE Return([system_pool |-> system[1], other_pools |-> SelectSeq(pools, IsOther)])

SplitPools(pools) ==
    LET system == SelectSeq(pools, IsSystem) IN
    IF Len(system) # 1 THEN Raise("ValueError")
    ELSE Return([system_pool |-> system[1], other_pools |-> SelectSeq(pools, IsOther)])

----------------------------------------------------------------------------
(* _taints_from and _np_common_kwargs *)

NO_SCHEDULE == <<"N", "o", "S", "c", "h", "e", "d", "u", "l", "e">>

\* KubernetesNodePoolTaintArgs(key=t.get("key"), value=t.get("value"),
\*                             effect=t.get("effect", "NoSchedule"))
TaintArgs(t) ==
    [key |-> Get(t.key), value |-> Get(t.value), effect |-> GetOr(t.effect, PyStr(NO_SCHEDULE))]

DefaultSystemTaint ==
    [key |-> PyStr(<<"p", "o", "o", "l">>),
     value |-> PyStr(<<"s", "y", "s", "t", "e", "m">>),
     effect |-> PyStr(NO_SCHEDULE)]

\* the default taint given to every pool without taints of its own
TaintsFrom_DefaultForAll(p, default_if_system) ==
    LET taints_cfg == Get(p.taints) IN
    IF taints_cfg.t = "list" /\ Truthy(taints_cfg)
    THEN PyList([i \in 1..Len(taints_cfg.v) |-> TaintArgs(taints_cfg.v[i])])
    ELSE PyList(<<DefaultSystemTaint>>)

TaintsFrom(p, default_if_system) ==
    LET taints_cfg == Get(p.taints) IN
    IF taints_cfg.t = "list" /\ Truthy(taints_cfg)
    THEN PyList([i \in 1..Len(taints_cfg.v) |-> TaintArgs(taints_cfg.v[i])])
    ELSE IF default_if_system THEN PyList(<<DefaultSystemTaint>>)
    ELSE PyNone

\* int(x)
IntOf(x) == IF x.t = "bool" THEN (IF x.v THEN 1 ELSE 0) ELSE x.v

\* maxNodes read with the default 1 instead of min_nodes
ScalingOf_MaxDefaultsToOne(pool) ==
    LET min_nodes == IntOf(GetOr(pool.minNodes, PyInt(1)))
        max_nodes == IntOf(GetOr(pool.maxNodes, PyInt(1)))
    IN [min_nodes |-> min_nodes, max_nodes |-> max_nodes,
        autoscale |-> Truthy(GetOr(pool.autoScale, PyBool(min_nodes # max_nodes)))]

\* min_nodes, max_nodes and autoscale, inferred if not set
ScalingOf(pool) ==
    LET min_nodes == IntOf(GetOr(pool.minNodes, PyInt(1)))
        max_nodes == IntOf(GetOr(pool.maxNodes, PyInt(min_nodes)))
    IN [min_nodes |-> min_nodes, max_nodes |-> max_nodes,
        autoscale |-> Truthy(GetOr(pool.autoScale, PyBool(min_nodes # max_nodes)))]

\* node_count set in both branches
ScalingKwargs_AlwaysCount(s) ==
    [min_nodes |-> IF s.autoscale THEN PyInt(s.min_nodes) ELSE Absent,
     max_nodes |-> IF s.autoscale THEN PyInt(s.max_nodes) ELSE Absent,
     node_count |-> PyInt(s.min_nodes)]

\* kwargs.update(min_nodes=, max_nodes=) if autoscale else kwargs.update(node_count=)
ScalingKwargs(s) ==
    [min_nodes |-> IF s.autoscale THEN PyInt(s.min_nodes) ELSE Absent,
     max_nodes |-> IF s.autoscale THEN PyInt(s.max_nodes) ELSE Absent,
     node_count |-> IF s.autoscale THEN Absent ELSE PyInt(s.min_nodes)]

NpCommonKwargs(name, pool, is_system) ==
    IF pool.name = Absent \/ pool.size = Absent THEN Raise("KeyError")
    ELSE
    LET pool_name == pool.name
        scaling == ScalingOf(pool)
        labels == LabelsFor(name, pool_name, Get(pool.labels))
        taints == TaintsFrom(pool, is_system)
    IN IF labels.raised # "none" THEN labels
       ELSE Return(
         [name |-> Str(name) \o <<"-">> \o Str(pool_name),
          size |-> pool.size,
          labels |-> labels.value,
          tags |-> <<AETHERIC, Str(name), <<"p", "o", "o", "l">>, Str(pool_name)>>,
          auto_scale |-> scaling.autoscale,
          min_nodes |-> ScalingKwargs(scaling).min_nodes,
          max_nodes |-> ScalingKwargs(scaling).max_nodes,
          node_count |-> ScalingKwargs(scaling).node_count,
          taints |-> IF Truthy(taints) THEN taints ELSE Absent])

----------------------------------------------------------------------------
(* Inputs of the label checks *)

LabelChars == {"a", "=", ",", " "}

\* all strings over chars of length at most n
StrOver(chars, n) == UNION {[1..m -> chars] : m \in 0..n}

ClusterNames == {PyStr(<<"c">>), PyStr(<<"d", "o", "k", "s">>)}
PoolNames == {PyStr(<<"s", "y", "s">>), PyStr(<<"w">>)}

\* label strings: every short string, and some that name a base key
ExtraStrings ==
    StrOver(LabelChars, MaxStrLen)
        \cup {AETHERIC \o <<"=", "a">>, AETHERIC_POOL, <<"\t", "a", "\t", "a", "=", "a">>}

LabelKeys == {<<"a">>, <<"a", "a">>, AETHERIC, AETHERIC_POOL}
LabelScalars ==
    {PyStr(<<"a">>), PyStr(<<" ", "a">>), PyBool(TRUE), PyBool(FALSE), PyInt(10), PyNone}

DistinctKeys(items) ==
    \A i, j \in 1..Len(items) : i # j => items[i][1] # items[j][1]

\* mappings of at most MaxItems entries, in insertion order
ExtraDicts ==
    {d \in UNION {[1..m -> LabelKeys \X LabelScalars] : m \in 0..MaxItems} : DistinctKeys(d)}

ListItems ==
    {PyStr(s) : s \in {<<>>, <<"a">>, <<"a", "=", "a">>, <<" ", "a", " ", "=", " ", "a">>,
                       <<"=", "a">>, <<"a", "=", "a", "=", "a">>, <<"a", "=">>,
                       <<"a", ",", "a">>, AETHERIC \o <<"=", "a">>}}
        \cup {PyDict(<< <<(<<"a">>), PyStr(<<"a", "a">>)>> >>),
              PyDict(<< <<(<<"a", "a">>), PyBool(TRUE)>> >>),
              PyInt(1)}

ExtraLists == UNION {[1..m -> ListItems] : m \in 0..MaxItems}

ExtraValues ==
    {PyNone, PyBool(FALSE), PyBool(TRUE), PyInt(0), PyInt(7)}
        \cup {PyStr(s) : s \in ExtraStrings}
        \cup {PyDict(d) : d \in ExtraDicts}
        \cup {PyList(xs) : xs \in ExtraLists}

----------------------------------------------------------------------------
(* _labels_for called on one label value *)

IdleRun == cfg = PyNone /\ declared = <<>> /\ raised = "none"

InitLabels ==
    /\ pc = "call"
    /\ call \in [name : ClusterNames, pool_name : PoolNames, extra : ExtraValues]
    /\ result = Pending
    /\ IdleRun

CallLabelsFor ==
    /\ pc = "call"
    /\ result' = LabelsFor(call.name, call.pool_name, call.extra)
    /\ pc' = "done"
    /\ UNCHANGED <<cfg, declared, raised, call>>

\* the call's outcome is recorded under the form's name
Record(form, out, then) ==
    /\ result' = [f \in DOMAIN result \cup {form} |-> IF f = form THEN out ELSE result[f]]
    /\ pc' = then
    /\ UNCHANGED <<cfg, declared, raised, call>>

NextLabels == CallLabelsFor

SpecLabels == InitLabels /\ [][NextLabels]_vars

\* C4: the labels _labels_for returns carry "aetheric" = the cluster name and
\* "aetheric-pool" = the pool name, whatever keys the extra value holds.
C4_BaseLabelsKept ==
    (pc = "done" /\ result.raised = "none")
        => /\ result.value[AETHERIC] = Str(call.name)
           /\ result.value[AETHERIC_POOL] = Str(call.pool_name)

\* C9: a given extra value that is no mapping, sequence or string makes
\* _labels_for raise TypeError and return no labels.
C9_UnsupportedShapeRaises ==
    (pc = "done" /\ call.extra.t \notin {"dict", "list", "str", "none"})
        => result = Raise("TypeError")

----------------------------------------------------------------------------
(* split_pools called on one pool list *)

\* pool descriptors: every key but name and size is optional
PoolSpecs(names, mins, maxs, autos, flags, labels, taints) ==
    [name : names, size : {PyStr(<<"s", "1">>)}, minNodes : mins, maxNodes : maxs,
     autoScale : autos, isSystem : flags, labels : labels, taints : taints]

SystemFlags == {Absent, PyBool(FALSE), PyBool(TRUE), PyInt(1)}

SplitPoolSpecs ==
    PoolSpecs({PyStr(<<"s", "y", "s">>), PyStr(<<"w">>)}, {Absent}, {Absent}, {Absent},
              SystemFlags, {Absent}, {Absent})

InitSplit ==
    /\ pc = "call"
    /\ call \in [pools : UNION {[1..m -> SplitPoolSpecs] : m \in 0..MaxPools}]
    /\ result = Pending
    /\ IdleRun

CallSplitPools ==
    /\ pc = "call"
    /\ result' = SplitPools(call.pools)
    /\ pc' = "done"
    /\ UNCHANGED <<cfg, declared, raised, call>>

NextSplit == CallSplitPools

SpecSplit == InitSplit /\ [][NextSplit]_vars

\* the positions of the entries flagged as system pool
SystemAt(pools) == {i \in 1..Len(pools) : Truthy(Get(pools[i].isSystem))}

\* C1: with exactly one entry whose isSystem is truthy, split_pools returns
\* that entry as the system pool and the other entries, in input order, as
\* other_pools.
C1_SplitExactlyOne ==
    (pc = "done" /\ Cardinality(SystemAt(call.pools)) = 1)
        => LET i == CHOOSE i \in SystemAt(call.pools) : TRUE IN
           /\ result.raised = "none"
           /\ result.value.system_pool = call.pools[i]
           /\ result.value.other_pools =
                 [j \in 1..(Len(call.pools) - 1) |-> call.pools[IF j < i THEN j ELSE j + 1]]

\* a system pool between two other pools has been split off
C1_Witness ==
    /\ pc = "done"
    /\ Len(call.pools) = 3
    /\ SystemAt(call.pools) = {2}
    /\ call.pools[1] # call.pools[3]
    /\ result.raised = "none"

\* C2: with no entry or with two or more entries flagged as system pool (the
\* empty list included), split_pools raises and returns nothing.
C2_SplitRejects ==
    (pc = "done" /\ Cardinality(SystemAt(call.pools)) # 1) => result = Raise("ValueError")

\* a list with two system pools has been rejected
C2_Witness ==
    /\ pc = "done"
    /\ Cardinality(SystemAt(call.pools)) = 2
    /\ result = Raise("ValueError")

----------------------------------------------------------------------------
(* _taints_from and _np_common_kwargs called on one pool *)

TaintEntries ==
    [key : {PyStr(<<"k">>)}, value : {PyStr(<<"v">>), Absent},
     effect : {Absent, PyNone, PyStr(<<"N", "o", "E", "x", "e", "c", "u", "t", "e">>)}]

\* taints: missing, null, not a list, or a list of at most MaxTaints entries
TaintCfgs ==
    {Absent, PyNone, PyStr(<<"k">>)}
        \cup {PyList(ts) : ts \in UNION {[1..m -> TaintEntries] : m \in 0..MaxTaints}}

NodeCounts == {Absent} \cup {PyInt(n) : n \in 0..MaxNodes}

KwargsPoolSpecs ==
    PoolSpecs({PyStr(<<"w">>)}, NodeCounts, NodeCounts,
              {Absent, PyNone, PyBool(FALSE), PyBool(TRUE)}, {Absent},
              {Absent, PyStr(<<"a", "=", "a">>), PyInt(7)}, TaintCfgs)

InitPool ==
    /\ pc = "taints"
    /\ call \in [name : {PyStr(<<"c">>)}, pool : KwargsPoolSpecs, is_system : BOOLEAN]
    /\ result = [f \in {} |-> Pending]
    /\ IdleRun

CallTaintsFrom ==
    /\ pc = "taints"
    /\ Record("taints", TaintsFrom(call.pool, call.is_system), "kwargs")

CallNpCommonKwargs ==
    /\ pc = "kwargs"
    /\ Record("kwargs", NpCommonKwargs(call.name, call.pool, call.is_system), "done")

NextPool == CallTaintsFrom \/ CallNpCommonKwargs

SpecPool == InitPool /\ [][NextPool]_vars

\* the pool gives explicit taints: a non-empty list
ExplicitTaints(p) == p.taints.t = "list" /\ Len(p.taints.v) > 0

\* the request was built
Built == pc = "done" /\ result["kwargs"].raised = "none"

\* minNodes, 1 when absent; maxNodes, minNodes when absent
MinOf(p) == IF p.minNodes = Absent THEN 1 ELSE p.minNodes.v
MaxOf(p) == IF p.maxNodes = Absent THEN MinOf(p) ELSE p.maxNodes.v

\* C5: explicit taints are taken over in order, effect NoSchedule where
\* omitted; without them the system pool gets the single taint
\* pool=system:NoSchedule and any other pool none.  So the system pool's
\* request carries a taint and a worker pool's without explicit taints none.
C5_TaintRule ==
    LET p == call.pool IN
    /\ (pc # "taints" /\ ExplicitTaints(p)) =>
          /\ result["taints"].t = "list"
          /\ Len(result["taints"].v) = Len(p.taints.v)
          /\ \A i \in 1..Len(p.taints.v) :
                LET t == p.taints.v[i]
                    r == result["taints"].v[i]
                IN /\ r.key = t.key
                   /\ r.value = (IF t.value = Absent THEN PyNone ELSE t.value)
                   /\ r.effect = (IF t.effect = Absent THEN PyStr(NO_SCHEDULE) ELSE t.effect)
    /\ (pc # "taints" /\ ~ExplicitTaints(p) /\ call.is_system) =>
          result["taints"] =
              PyList(<<[key |-> PyStr(<<"p", "o", "o", "l">>),
                        value |-> PyStr(<<"s", "y", "s", "t", "e", "m">>),
                        effect |-> PyStr(NO_SCHEDULE)]>>)
    /\ (pc # "taints" /\ ~ExplicitTaints(p) /\ ~call.is_system) =>
          result["taints"] = PyNone
    /\ (Built /\ call.is_system) =>
          /\ result["kwargs"].value.taints # Absent
          /\ Len(result["kwargs"].value.taints.v) >= 1
    /\ (Built /\ ~call.is_system /\ ~ExplicitTaints(p)) =>
          result["kwargs"].value.taints = Absent

\* a system pool with an empty taint list got the default taint, in the request too
C5_Witness ==
    /\ Built
    /\ call.is_system
    /\ call.pool.taints = PyList(<<>>)
    /\ result["kwargs"].value.taints = PyList(<<DefaultSystemTaint>>)

\* two explicit taints, the second without effect, resolved for a worker pool
C5_WitnessExplicit ==
    /\ Built
    /\ ~call.is_system
    /\ ExplicitTaints(call.pool)
    /\ Len(call.pool.taints.v) = 2
    /\ call.pool.taints.v[1].effect # Absent
    /\ call.pool.taints.v[2].effect = Absent

\* C6: a built request carries either a fixed node count equal to minNodes and
\* no range, or the range (minNodes, maxNodes) and no fixed count.
C6_OneScalingForm ==
    Built =>
        LET r == result["kwargs"].value
            p == call.pool
        IN \/ /\ r.node_count = PyInt(MinOf(p))
              /\ r.min_nodes = Absent
              /\ r.max_nodes = Absent
           \/ /\ r.node_count = Absent
              /\ r.min_nodes = PyInt(MinOf(p))
              /\ r.max_nodes = PyInt(MaxOf(p))

\* an explicit autoScale=true with equal bounds gave a range, not a count
C6_Witness ==
    /\ Built
    /\ call.pool.autoScale = PyBool(TRUE)
    /\ call.pool.minNodes = PyInt(2)
    /\ call.pool.maxNodes = PyInt(2)
    /\ result["kwargs"].value.node_count = Absent
    /\ result["kwargs"].value.min_nodes = PyInt(2)

\* C7: without autoScale, the request autoscales exactly when minNodes differs
\* from maxNodes (minNodes 1 when absent, maxNodes = minNodes when absent):
\* the range (minNodes, maxNodes) then, the fixed count minNodes otherwise.
C7_InferredAutoscale ==
    (Built /\ call.pool.autoScale = Absent) =>
        LET r == result["kwargs"].value
            p == call.pool
        IN /\ r.auto_scale = (MinOf(p) # MaxOf(p))
           /\ (MinOf(p) # MaxOf(p)) =>
                 /\ r.min_nodes = PyInt(MinOf(p))
                 /\ r.max_nodes = PyInt(MaxOf(p))
                 /\ r.node_count = Absent
           /\ (MinOf(p) = MaxOf(p)) =>
                 /\ r.node_count = PyInt(MinOf(p))
                 /\ r.min_nodes = Absent
                 /\ r.max_nodes = Absent

\* {minNodes: 2, maxNodes: 5} gave the range (2, 5)
C7_Witness ==
    /\ Built
    /\ call.pool.autoScale = Absent
    /\ call.pool.minNodes = PyInt(2)
    /\ call.pool.maxNodes = PyInt(5)
    /\ result["kwargs"].value.auto_scale
    /\ result["kwargs"].value.min_nodes = PyInt(2)
    /\ result["kwargs"].value.max_nodes = PyInt(5)

\* C8: no request is built with an autoscale range whose max is below its min:
\* resolution fails when autoscaling is active and maxNodes < minNodes.
C8_NoInvertedRange ==
    (pc = "done" /\ MaxOf(call.pool) < MinOf(call.pool)
                 /\ Truthy(GetOr(call.pool.autoScale, PyBool(TRUE))))
        => result["kwargs"].raised # "none"

----------------------------------------------------------------------------
(* _labels_for called on the three forms of one label set: a pair k=v and a
   bare key *)

\* characters of the bare key: a letter and a blank
BareChars == {"a", " "}
Separators == {<<",">>, <<" ">>, <<",", " ">>}

MappingForm(c) == PyDict(<< <<c.k, PyStr(c.v)>>, <<c.bare, PyBool(TRUE)>> >>)
SequenceForm(c) == PyList(<<PyStr(c.k \o <<"=">> \o c.v), PyStr(c.bare)>>)
StringForm(c, sep) == PyStr(c.k \o <<"=">> \o c.v \o sep \o c.bare)

InitForms ==
    /\ pc = "mapping"
    /\ call \in [name : {PyStr(<<"c">>)}, pool_name : {PyStr(<<"w">>)},
                 k : StrOver(LabelChars, MaxTokLen),
                 v : StrOver(LabelChars, MaxTokLen),
                 bare : StrOver(BareChars, MaxTokLen)]
    /\ call.k # call.bare
    /\ result = [f \in {} |-> Pending]
    /\ IdleRun

CallLabelsForMapping ==
    /\ pc = "mapping"
    /\ Record("mapping", LabelsFor(call.name, call.pool_name, MappingForm(call)), "sequence")

CallLabelsForSequence ==
    /\ pc = "sequence"
    /\ Record("sequence", LabelsFor(call.name, call.pool_name, SequenceForm(call)), "string")

CallLabelsForString ==
    /\ pc = "string"
    /\ \E sep \in Separators :
          Record("string", LabelsFor(call.name, call.pool_name, StringForm(call, sep)), "done")

NextForms == CallLabelsForMapping \/ CallLabelsForSequence \/ CallLabelsForString

SpecForms == InitForms /\ [][NextForms]_vars

\* a key is a non-empty token free of "=", commas and whitespace
IsKeyToken(s) == s # <<>> /\ \A i \in 1..Len(s) : ~IsDelim(s[i]) /\ s[i] # "="
\* a value is a token free of commas and whitespace
IsValueToken(s) == \A i \in 1..Len(s) : ~IsDelim(s[i])

WellFormed(c) == IsKeyToken(c.k) /\ IsKeyToken(c.bare) /\ IsValueToken(c.v)

\* the base labels plus k -> v and bare -> "true"
Expected(c) ==
    [x \in {AETHERIC, AETHERIC_POOL, c.k, c.bare} |->
        IF x = c.k THEN c.v
        ELSE IF x = c.bare THEN TRUE_STR
        ELSE BaseLabels(c.name, c.pool_name)[x]]

\* C10: for a pair k=v and a bare key (keys non-empty and free of "=", commas
\* and whitespace, the value free of commas and whitespace), the mapping, the
\* sequence and the delimited string form all yield the base labels plus
\* k -> v and bare -> "true".
C10_FormsAgree ==
    (pc = "done" /\ WellFormed(call))
        => \A f \in DOMAIN result : result[f] = Return(Expected(call))

\* all three forms resolved for a pair whose value holds a further "="
C10_Witness ==
    /\ pc = "done"
    /\ WellFormed(call)
    /\ DOMAIN result = {"mapping", "sequence", "string"}
    /\ Contains(call.v, "=")
    /\ Len(call.k) > 1

----------------------------------------------------------------------------
(* The run: __main__ up to the node pools *)

\* cfg.get(key) is None: require and _require raise RuntimeError
Require(c, key) == IF Get(c[key]) = PyNone THEN Raise("RuntimeError") ELSE Return(Get(c[key]))

EndsWith(s, suffix) ==
    Len(s) >= Len(suffix) /\ SubSeq(s, Len(s) - Len(suffix) + 1, Len(s)) = suffix

\* base if base.endswith(suffix) else f"{base}-{suffix}"
WithSuffix(base, suffix) == IF EndsWith(base, suffix) THEN base ELSE base \o <<"-">> \o suffix

\* load_base_config: nodePools is get_object("nodePools") or []
LoadBaseConfig(c) ==
    LET name == Require(c, "clusterName")
        region == Require(c, "clusterRegion")
    IN IF name.raised # "none" THEN name
       ELSE IF region.raised # "none" THEN region
       ELSE Return([name |-> name.value, region |-> region.value,
                    nodePools |-> IF Truthy(Get(c.nodePools)) THEN c.nodePools.v ELSE <<>>])

Abort(e) ==
    /\ raised' = e
    /\ pc' = "aborted"

\* cluster_name = require(cfg, "clusterName")
RequireClusterName ==
    /\ pc = "require_name"
    /\ LET v == Require(cfg, "clusterName") IN
       IF v.raised # "none" THEN Abort(v.raised)
       ELSE pc' = "require_region" /\ UNCHANGED raised
    /\ UNCHANGED <<cfg, declared, call, result>>

\* cluster_region = require(cfg, "clusterRegion")
RequireClusterRegion ==
    /\ pc = "require_region"
    /\ LET v == Require(cfg, "clusterRegion") IN
       IF v.raised # "none" THEN Abort(v.raised)
       ELSE pc' = "ensure_vpc" /\ UNCHANGED raised
    /\ UNCHANGED <<cfg, declared, call, result>>

\* vpc = ensure_vpc(name=cluster_name, region=cluster_region)
EnsureVpc ==
    /\ pc = "ensure_vpc"
    /\ LET name == Str(cfg.clusterName)
           region == Str(cfg.clusterRegion)
           vpc_name == WithSuffix(name \o <<"-">> \o region, <<"v", "p", "c">>)
       IN declared' = Append(declared, [kind |-> "Vpc", name |-> vpc_name, region |-> region])
    /\ pc' = "ensure_cluster"
    /\ UNCHANGED <<cfg, raised, call, result>>

\* cluster, k8s_provider = ensure_cluster(vpc_id=vpc.id)
EnsureCluster ==
    /\ pc = "ensure_cluster"
    /\ LET base == LoadBaseConfig(cfg) IN
       IF base.raised # "none" THEN Abort(base.raised) /\ UNCHANGED declared
       ELSE
       LET split == SplitPools(base.value.nodePools) IN
       IF split.raised # "none" THEN Abort(split.raised) /\ UNCHANGED declared
       ELSE
       LET default_np == NpCommonKwargs(base.value.name, split.value.system_pool, TRUE) IN
       IF default_np.raised # "none" THEN Abort(default_np.raised) /\ UNCHANGED declared
       ELSE
          /\ declared' = declared \o
                <<[kind |-> "KubernetesCluster",
                   name |-> WithSuffix(Str(base.value.name), <<"d", "o", "k", "s">>),
                   region |-> Str(base.value.region),
                   node_pool |-> default_np.value],
                  [kind |-> "Provider",
                   name |-> Str(base.value.name) \o <<"-", "k", "8", "s">>]>>
          /\ pc' = "attach_node_pools"
          /\ UNCHANGED raised
    /\ UNCHANGED <<cfg, call, result>>

\* the worker pools' requests built with is_system=True
RECURSIVE AttachLoop_AsSystem(_, _)
AttachLoop_AsSystem(name, pools) ==
    IF pools = <<>> THEN [declared |-> <<>>, raised |-> "none"]
    ELSE LET kwargs == NpCommonKwargs(name, pools[1], TRUE) IN
         IF kwargs.raised # "none" THEN [declared |-> <<>>, raised |-> kwargs.raised]
         ELSE LET rest == AttachLoop_AsSystem(name, Tail(pools)) IN
              [declared |-> <<[kind |-> "KubernetesNodePool",
                               name |-> Str(name) \o <<"-">> \o Str(pools[1].name),
                               args |-> kwargs.value]>> \o rest.declared,
               raised |-> rest.raised]

\* the loop of attach_node_pools: the pools declared before the first one
\* whose request cannot be built, and the exception of that one
RECURSIVE AttachLoop(_, _)
AttachLoop(name, pools) ==
    IF pools = <<>> THEN [declared |-> <<>>, raised |-> "none"]
    ELSE LET kwargs == NpCommonKwargs(name, pools[1], FALSE) IN
         IF kwargs.raised # "none" THEN [declared |-> <<>>, raised |-> kwargs.raised]
         ELSE LET rest == AttachLoop(name, Tail(pools)) IN
              [declared |-> <<[kind |-> "KubernetesNodePool",
                               name |-> Str(name) \o <<"-">> \o Str(pools[1].name),
                               args |-> kwargs.value]>> \o rest.declared,
               raised |-> rest.raised]

\* attach_node_pools(cluster=cluster)
AttachNodePools ==
    /\ pc = "attach_node_pools"
    /\ LET base == LoadBaseConfig(cfg) IN
       IF base.raised # "none" THEN Abort(base.raised) /\ UNCHANGED declared
       ELSE
       LET split == SplitPools(base.value.nodePools) IN
       IF split.raised # "none" THEN Abort(split.raised) /\ UNCHANGED declared
       ELSE
       LET loop == AttachLoop(base.value.name, split.value.other_pools) IN
          /\ declared' = declared \o loop.declared
          /\ IF loop.raised # "none" THEN Abort(loop.raised)
             ELSE pc' = "system_services" /\ UNCHANGED raised
    /\ UNCHANGED <<cfg, call, result>>

RunPoolSpecs ==
    PoolSpecs({PyStr(<<"s", "y", "s">>), PyStr(<<"w">>), Absent}, {Absent}, {Absent}, {Absent},
              {Absent, PyBool(TRUE)}, {Absent, PyInt(7)}, {Absent})

Configs ==
    [clusterName : {Absent, PyStr(<<"c">>)},
     clusterRegion : {Absent, PyStr(<<"r">>)},
     nodePools : {Absent} \cup {PyList(ps) : ps \in UNION {[1..m -> RunPoolSpecs] : m \in 0..MaxPools}}]

Init ==
    /\ pc = "require_name"
    /\ cfg \in Configs
    /\ declared = <<>>
    /\ raised = "none"
    /\ call = PyNone
    /\ result = Pending

Next ==
    \/ RequireClusterName
    \/ RequireClusterRegion
    \/ EnsureVpc
    \/ EnsureCluster
    \/ AttachNodePools

Spec == Init /\ [][Next]_vars

\* C3: a run that aborts with a configuration error (missing key, system-pool
\* count, label shape) has declared no resource to the engine before.
C3_ConfigErrorBeforeDeclaration ==
    raised # "none" => declared = <<>>

----------------------------------------------------------------------------
(* _labels_for called on label entries with repeated keys, the whole extra
   value merged one or more times *)

\* an entry is a key with a string value, or a bare key (value True)
EntryKeys == {<<"a">>, <<"a", "a">>}
EntryValues == {PyBool(TRUE), PyStr(<<>>), PyStr(<<"a">>), PyStr(<<"a", "=", "a">>)}

RECURSIVE Times(_, _)
Times(xs, n) == IF n = 0 THEN <<>> ELSE xs \o Times(xs, n - 1)

\* "k=v", or "k" for a bare key
TokenOf(e) == IF e[2] = PyBool(TRUE) THEN e[1] ELSE e[1] \o <<"=">> \o e[2].v

RECURSIVE Join(_, _)
Join(tokens, sep) ==
    IF tokens = <<>> THEN <<>>
    ELSE IF Len(tokens) = 1 THEN tokens[1]
    ELSE tokens[1] \o sep \o Join(Tail(tokens), sep)

\* the entries as a delimited string, a list of strings, a list of mappings,
\* and a list that alternates mappings and strings
RepeatString(es, sep) == PyStr(Join([i \in 1..Len(es) |-> TokenOf(es[i])], sep))
RepeatSequence(es) == PyList([i \in 1..Len(es) |-> PyStr(TokenOf(es[i]))])
RepeatMappings(es) == PyList([i \in 1..Len(es) |-> PyDict(<<es[i]>>)])
RepeatMixed(es) ==
    PyList([i \in 1..Len(es) |-> IF i % 2 = 1 THEN PyDict(<<es[i]>>) ELSE PyStr(TokenOf(es[i]))])

\* the extra value of the call: the entries, merged call.times times
Merged == Times(call.entries, call.times)

InitRepeat ==
    /\ pc = "string"
    /\ call \in [name : {PyStr(<<"c">>)}, pool_name : {PyStr(<<"w">>)},
                 entries : UNION {[1..m -> EntryKeys \X EntryValues] : m \in 0..MaxEntries},
                 times : 1..MaxTimes]
    /\ result = [f \in {} |-> Pending]
    /\ IdleRun

CallLabelsForRepeatString ==
    /\ pc = "string"
    /\ \E sep \in Separators :
          Record("string", LabelsFor(call.name, call.pool_name, RepeatString(Merged, sep)),
                 "sequence")

CallLabelsForRepeatSequence ==
    /\ pc = "sequence"
    /\ Record("sequence", LabelsFor(call.name, call.pool_name, RepeatSequence(Merged)),
              "mappings")

CallLabelsForRepeatMappings ==
    /\ pc = "mappings"
    /\ Record("mappings", LabelsFor(call.name, call.pool_name, RepeatMappings(Merged)),
              "mixed")

CallLabelsForRepeatMixed ==
    /\ pc = "mixed"
    /\ Record("mixed", LabelsFor(call.name, call.pool_name, RepeatMixed(Merged)), "done")

NextRepeat ==
    \/ CallLabelsForRepeatString
    \/ CallLabelsForRepeatSequence
    \/ CallLabelsForRepeatMappings
    \/ CallLabelsForRepeatMixed

SpecRepeat == InitRepeat /\ [][NextRepeat]_vars

\* the positions at which key x occurs in the entries
OccurrencesOf(es, x) == {i \in 1..Len(es) : es[i][1] = x}

\* each key with the value of its last occurrence; a base key that no entry
\* names keeps its base value
LastWins(c) ==
    LET es == c.entries IN
    [x \in {AETHERIC, AETHERIC_POOL} \cup {es[i][1] : i \in 1..Len(es)} |->
        IF OccurrencesOf(es, x) = {} THEN BaseLabels(c.name, c.pool_name)[x]
        ELSE LET last == CHOOSE i \in OccurrencesOf(es, x) :
                             \A j \in OccurrencesOf(es, x) : j <= i
                 v == es[last][2]
             IN IF v = PyBool(TRUE) THEN TRUE_STR ELSE v.v]

\* C11: when a key occurs more than once in the extra value (tokens of a
\* string, elements or mappings of a sequence), the result holds the value of
\* its last occurrence, and merging the same extra one or more times yields
\* the same mapping.
C11_LastWriteWins ==
    pc = "done" => \A f \in DOMAIN result : result[f] = Return(LastWins(call))

\* a key given three times with three values, the extra merged twice
C11_Witness ==
    /\ pc = "done"
    /\ DOMAIN result = {"string", "sequence", "mappings", "mixed"}
    /\ call.times = 2
    /\ Len(call.entries) = 3
    /\ \A i \in 1..3 : call.entries[i][1] = <<"a">>
    /\ Cardinality({call.entries[i][2] : i \in 1..3}) = 3
    /\ call.entries[3][2] = PyStr(<<"a">>)

----------------------------------------------------------------------------
(* _np_common_kwargs called twice on the same pool dict *)

\* labels taken out of the pool (pool.pop("labels", None)) instead of read
PoolAfterResolve_PopsLabels(pool) == [pool EXCEPT !.labels = Absent]

\* the pool dict after _np_common_kwargs: the function and its helpers only
\* read it (pool[...], pool.get, p.get, t.get) and build new objects
PoolAfterResolve(pool) == pool

PurePoolSpecs ==
    PoolSpecs(PoolNames, {Absent, PyInt(2)}, {Absent, PyInt(3)}, {Absent, PyBool(FALSE)},
              {Absent, PyBool(TRUE)},
              {Absent, PyInt(7), PyStr(<<"a", "=", "a">>),
               PyDict(<< <<(<<"a">>), PyStr(<<"a">>)>> >>),
               PyList(<<PyStr(<<"a", "=", "a">>), PyDict(<< <<(<<"a", "a">>), PyBool(TRUE)>> >>)>>)},
              TaintCfgs)

InitPure ==
    /\ pc = "first"
    /\ \E name \in ClusterNames, pool \in PurePoolSpecs, is_system \in BOOLEAN :
          call = [name |-> name, pool |-> pool, given |-> pool, is_system |-> is_system]
    /\ result = [f \in {} |-> Pending]
    /\ IdleRun

\* one resolution: the request is recorded, the pool dict is what the call left
Resolve(which, then) ==
    /\ result' = [f \in DOMAIN result \cup {which} |->
                     IF f = which THEN NpCommonKwargs(call.name, call.pool, call.is_system)
                     ELSE result[f]]
    /\ call' = [call EXCEPT !.pool = PoolAfterResolve(call.pool)]
    /\ pc' = then
    /\ UNCHANGED <<cfg, declared, raised>>

ResolveFirst == pc = "first" /\ Resolve("first", "second")

ResolveSecond == pc = "second" /\ Resolve("second", "done")

NextPure == ResolveFirst \/ ResolveSecond

SpecPure == InitPure /\ [][NextPure]_vars

----------------------------------------------------------------------------
(* The declarations of a complete run *)

\* the configured pool list (none when nodePools is unset)
ConfiguredPools == IF cfg.nodePools = Absent THEN <<>> ELSE cfg.nodePools.v

\* the pool list without its i-th entry
Without(pools, i) == [j \in 1..(Len(pools) - 1) |-> pools[IF j < i THEN j ELSE j + 1]]

\* the request of pool p can be built
Buildable(p, is_system) == NpCommonKwargs(cfg.clusterName, p, is_system).raised = "none"

\* C13: a run that completes has declared, in this order, the VPC, the
\* cluster with the one system pool's request (built with is_system=True)
\* embedded, the provider, and one node pool per other pool in input order
\* (built with is_system=False): no pool twice, none left out.  A run over a
\* list with one system pool whose requests can all be built does not abort.
C13_OneRequestPerPool ==
    LET pools == ConfiguredPools
        name == cfg.clusterName
    IN
    /\ pc = "system_services" =>
          /\ Cardinality(SystemAt(pools)) = 1
          /\ LET i == CHOOSE i \in SystemAt(pools) : TRUE
                 others == Without(pools, i)
             IN /\ Len(declared) = 3 + Len(others)
                /\ declared[1].kind = "Vpc"
                /\ declared[2].kind = "KubernetesCluster"
                /\ declared[3].kind = "Provider"
                /\ declared[2].node_pool = NpCommonKwargs(name, pools[i], TRUE).value
                /\ declared[2].node_pool.name = name.v \o <<"-">> \o pools[i].name.v
                /\ ~ExplicitTaints(pools[i]) =>
                      declared[2].node_pool.taints = PyList(<<DefaultSystemTaint>>)
                /\ \A j \in 1..Len(others) :
                      LET np == declared[3 + j] IN
                      /\ np.kind = "KubernetesNodePool"
                      /\ np.name = name.v \o <<"-">> \o others[j].name.v
                      /\ np.args = NpCommonKwargs(name, others[j], FALSE).value
                      /\ ~ExplicitTaints(others[j]) => np.args.taints = Absent
    /\ (pc = "aborted" /\ cfg.clusterName # Absent /\ cfg.clusterRegion # Absent) =>
          \/ Cardinality(SystemAt(pools)) # 1
          \/ \E j \in 1..Len(pools) : ~Buildable(pools[j], j \in SystemAt(pools))

\* a complete run over two different worker pools around the system pool
C13_Witness ==
    /\ pc = "system_services"
    /\ Len(ConfiguredPools) = 3
    /\ SystemAt(ConfiguredPools) = {2}
    /\ ConfiguredPools[1].name # ConfiguredPools[3].name
    /\ Len(declared) = 5
    /\ declared[4].name = cfg.clusterName.v \o <<"-">> \o ConfiguredPools[1].name.v
    /\ declared[5].name = cfg.clusterName.v \o <<"-">> \o ConfiguredPools[3].name.v

====
